---------------------------- MODULE Spec2Model ----------------------------
(***************************************************************************)
(* A model of static_kallsyms.py: the extraction of the kallsyms symbol    *)
(* table from a raw kernel image.  The image is a sequence of bytes        *)
(* (0..255); offsets are 0-based as in the Python source, so the byte at   *)
(* offset k is kernel_data[k + 1] here.  One run of main() is one          *)
(* behaviour: pc walks through the statements of main and of               *)
(* get_kernel_symbol_table, an uncaught Python exception is recorded in    *)
(* exc and ends the run.  An unsigned 32-bit value (an address, the        *)
(* stored symbol count) is held as its two 16-bit halves <<high, low>>,    *)
(* since it may exceed the integers the model checker computes with;       *)
(* offsets and loop counts are plain integers.                             *)
(***************************************************************************)
EXTENDS Integers, Sequences, FiniteSets, TLC

VARIABLES
    input,                      \* how the image file was made (ghost)
    argc,                       \* len(sys.argv)
    argv2,                      \* int(sys.argv[2], 16) when argc = 3
    kernel_data,                \* the bytes of the kernel file
    kernel_text_start,
    pc,                         \* the statement about to run
    ran,                        \* the stages that have run (ghost)
    kallsyms_addresses_off,
    kallsyms_addresses_end_off,
    num_symbols,
    kallsyms_num_syms_off,
    kallsyms_num_syms,
    kallsyms_names_off,
    names_end,                  \* current_offset after the loop of line 85
    kallsyms_markers_off,
    kallsyms_token_table_off,
    tokens_end,                 \* current_offset after the loop of line 92
    kallsyms_token_index_off,
    token_table,
    offset,                     \* the decode cursor of lines 104-113
    cursors,                    \* where each decoded record began (ghost)
    i,                          \* the loop index of line 106
    symbol_table,
    returned,                   \* "unset", "None" or "list"
    printed,                    \* symbols main has printed
    stdout,                     \* the lines written to standard output
    exc,                        \* the uncaught exception, or "none"
    exit_status

vars == <<input, argc, argv2, kernel_data, kernel_text_start, pc, ran,
          kallsyms_addresses_off, kallsyms_addresses_end_off, num_symbols,
          kallsyms_num_syms_off, kallsyms_num_syms, kallsyms_names_off,
          names_end, kallsyms_markers_off, kallsyms_token_table_off,
          tokens_end, kallsyms_token_index_off, token_table, offset, cursors,
          i, symbol_table, returned, printed, stdout, exc, exit_status>>

-----------------------------------------------------------------------------
(* Program constants.                                                      *)

DEFAULT_KERNEL_TEXT_START == <<49152, 32768>>     \* 0xC0008000

DWORD_SIZE == 4

WORD_SIZE == 2

LABEL_ALIGN == DWORD_SIZE * 4

KALLSYMS_ADDRESSES_MIN_HEURISTIC == 2

\* The number of tokens: range(0, 256) of lines 92 and 99.
NUM_TOKENS == 256

Min(a, b) == IF a < b THEN a ELSE b

Max(a, b) == IF a > b THEN a ELSE b

-----------------------------------------------------------------------------
(* Python's str operations used by the program.                            *)

\* data[a:b]: both ends are clamped to the string, a negative end counts
\* from the end of the string.
Slice(data, a, b) ==
    LET n  == Len(data)
        lo == IF a < 0 THEN Max(a + n, 0) ELSE Min(a, n)
        hi == IF b < 0 THEN Max(b + n, 0) ELSE Min(b, n)
    IN  IF hi <= lo THEN <<>> ELSE SubSeq(data, lo + 1, hi)

\* sub occurs in data at offset k.
OccursAt(data, sub, k) ==
    /\ k >= 0
    /\ k + Len(sub) <= Len(data)
    /\ \A j \in 1..Len(sub) : data[k + j] = sub[j]

\* data.find(sub, start): the lowest offset >= start at which sub occurs,
\* or -1.  A negative start counts from the end of the string.
Find(data, sub, start) ==
    LET n  == Len(data)
        lo == IF start < 0 THEN Max(start + n, 0) ELSE start
        hi == n - Len(sub)
    IN  IF \E k \in lo..hi : OccursAt(data, sub, k)
        THEN CHOOSE k \in lo..hi :
                /\ OccursAt(data, sub, k)
                /\ \A j \in lo..(k - 1) : ~OccursAt(data, sub, j)
        ELSE -1

\* The 32-bit value of a small non-negative integer.
Dword(n) == <<n \div 65536, n % 65536>>

\* A 32-bit value equals the integer n (n may be negative: no value does).
DwordEquals(value, n) == n >= 0 /\ value = Dword(n)

\* struct.pack("<I", value)
PackDword(value) ==
    << value[2] % 256, value[2] \div 256, value[1] % 256, value[1] \div 256 >>

\* s * count: the string repeated.
Repeat(s, count) == [k \in 1..(Len(s) * count) |-> s[((k - 1) % Len(s)) + 1]]

-----------------------------------------------------------------------------
(* The primitive readers.  struct.unpack raises struct.error when the      *)
(* slice is shorter than the format: CanRead* says it does not.            *)

CanReadDword(data, off) == Len(Slice(data, off, off + DWORD_SIZE)) = DWORD_SIZE

read_dword(data, off) ==
    LET s == Slice(data, off, off + DWORD_SIZE)
    IN  <<s[3] + 256 * s[4], s[1] + 256 * s[2]>>

CanReadWord(data, off) == Len(Slice(data, off, off + WORD_SIZE)) = WORD_SIZE

read_word(data, off) ==
    LET s == Slice(data, off, off + WORD_SIZE)
    IN  s[1] + 256 * s[2]

CanReadByte(data, off) == Len(Slice(data, off, off + 1)) = 1

read_byte(data, off) == Slice(data, off, off + 1)[1]

\* The while loop of read_c_string: the offset of the first NUL at or after
\* cur, or Len(data) when the loop runs off the end of the string (where
\* kernel_data[current_offset] raises IndexError).  Offsets are never
\* negative here.
RECURSIVE CStringEnd(_, _)
CStringEnd(data, cur) ==
    IF cur >= Len(data) THEN Len(data)
    ELSE IF data[cur + 1] = 0 THEN cur
    ELSE CStringEnd(data, cur + 1)

CanReadCString(data, off) == CStringEnd(data, off) < Len(data)

read_c_string(data, off) == SubSeq(data, off + 1, CStringEnd(data, off))

\* x & ~m on non-negative integers, bit by bit.
RECURSIVE AndNot(_, _)
AndNot(x, m) ==
    IF x = 0 THEN 0
    ELSE (IF m % 2 = 0 THEN x % 2 ELSE 0) + 2 * AndNot(x \div 2, m \div 2)

\* A faulty label_align, which rounds up to the boundary: the properties
\* must tell it from the real one.
label_align_up(address) == AndNot(address + LABEL_ALIGN - 1, LABEL_ALIGN - 1)

\* Line 55: address & ~(LABEL_ALIGN-1)
label_align(address) == AndNot(address, LABEL_ALIGN - 1)

find_kallsyms_addresses(data, text_start) ==
    Find(data, Repeat(PackDword(text_start), KALLSYMS_ADDRESSES_MIN_HEURISTIC), 0)


-----------------------------------------------------------------------------
(* The kernel images the run is given (line 126 reads the file whole).     *)
(* An image is laid out as the kallsyms tables are: the address table, its *)
(* terminating zero word, the symbol count, the names, the token strings   *)
(* and the token index, each at the next label boundary.                   *)

\* Bounds of the input space.
MaxLeadWords == 4

MaxAnchors == 2

MaxExtra == 2

\* A second text start, for the optional argument.
ALT_KERNEL_TEXT_START == <<49168, 0>>         \* 0xC0100000

\* Addresses that follow the anchors: 0xC0008004, and two whose bytes hold
\* zeroes (0x00001234, 0x56780000).
ExtraAddrs == { <<49152, 32772>>, <<0, 4660>>, <<22136, 0>> }

SeqsUpTo(S, n) == UNION {[1..k -> S] : k \in 0..n}

\* The token strings: token 0 is "T", 2 is "t", 5 is "_", 12 is "foo", the
\* others are empty.
TokenString(t) ==
    CASE t = 0  -> <<84>>
      [] t = 2  -> <<116>>
      [] t = 5  -> <<95>>
      [] t = 12 -> <<102, 111, 111>>
      [] OTHER  -> <<>>

\* The names record of the last symbol; the others are "tfoo_".
LastRecords == { <<0, 5, 12>>, <<0>>, <<>>, <<1>> }

OtherRecord == <<2, 12, 5>>

\* The places an image is cut at.
Cuts == 0..8

\* Two tables of 256 and 257 symbols, where the markers table grows to a
\* second entry.
BigExtras ==
    { [k \in 1..(NUM_TOKENS - KALLSYMS_ADDRESSES_MIN_HEURISTIC + d) |-> <<49152, 32772>>] :
        d \in 0..1 }

GoodRecord == <<0, 5, 12>>

Inputs ==
    { p \in [ argc : 1..3, base : {DEFAULT_KERNEL_TEXT_START, ALT_KERNEL_TEXT_START},
              leadWords : 0..MaxLeadWords, anchors : 1..MaxAnchors,
              extras : SeqsUpTo(ExtraAddrs, MaxExtra) \cup BigExtras,
              declaredDelta : {0, -1}, lastRecord : LastRecords, cut : Cuts,
              blank : BOOLEAN ] :
        LET plain == /\ p.declaredDelta = 0
                     /\ p.lastRecord = GoodRecord
                     /\ p.cut = 0
            small == /\ p.anchors = KALLSYMS_ADDRESSES_MIN_HEURISTIC
                     /\ Len(p.extras) <= 1
                     /\ p.leadWords <= 1
        IN  \* no image is read without a file argument
            /\ p.argc = 1 => (plain /\ small /\ p.leadWords = 0 /\ p.extras = <<>>)
            /\ p.argc = 2 => p.base = DEFAULT_KERNEL_TEXT_START
            /\ p.argc # 2 => small
            \* a wrong count, or a cut, comes with good names
            /\ p.declaredDelta # 0 => (p.lastRecord = GoodRecord /\ p.cut = 0)
            /\ p.cut # 0 => (p.lastRecord = GoodRecord /\ small)
            /\ p.leadWords > 0 => Len(p.extras) <= 1
            /\ p.extras \in BigExtras =>
                  (plain /\ p.anchors = KALLSYMS_ADDRESSES_MIN_HEURISTIC /\ p.argc = 2)
            \* one image holds no table at all
            /\ p.blank => (plain /\ small /\ p.leadWords = 0 /\ p.extras = <<>> /\ p.argc = 2) }

PackWord(value) == << value % 256, (value \div 256) % 256 >>

Zeros(n) == [k \in 1..n |-> 0]

\* The strings ss[lo], ..., ss[hi] joined.
RECURSIVE FlattenRange(_, _, _)
FlattenRange(ss, lo, hi) ==
    IF lo > hi THEN <<>>
    ELSE IF lo = hi THEN ss[lo]
    ELSE LET mid == (lo + hi) \div 2
         IN  FlattenRange(ss, lo, mid) \o FlattenRange(ss, mid + 1, hi)

Flatten(ss) == FlattenRange(ss, 1, Len(ss))

InputAddresses(p) == [k \in 1..p.anchors |-> p.base] \o p.extras

InputRecords(p) ==
    LET n == Len(InputAddresses(p))
    IN  [k \in 1..n |-> IF k = n THEN p.lastRecord ELSE OtherRecord]

\* The token strings are stored last token first, so that a token's index
\* entry is not its rank times a constant.
BlobString(pos) == TokenString(NUM_TOKENS - 1 - pos)

BlobBytes == Flatten([k \in 1..NUM_TOKENS |-> BlobString(k - 1) \o <<0>>])

\* The offset in the blob of its string number pos.
BlobOffset(pos) == Len(Flatten([k \in 1..pos |-> BlobString(k - 1) \o <<0>>]))

IndexBytes ==
    Flatten([k \in 1..NUM_TOKENS |-> PackWord(BlobOffset(NUM_TOKENS - k))])

\* Where the tables of the image of p are.
Layout(p) ==
    LET down(x)  == x - (x % LABEL_ALIGN)
        n        == Len(InputAddresses(p))
        a_off    == DWORD_SIZE * p.leadWords
        a_end    == a_off + DWORD_SIZE * n
        c_off    == down(a_end + LABEL_ALIGN)
        n_off    == down(c_off + DWORD_SIZE + LABEL_ALIGN)
        n_end    == n_off + Len(Flatten([k \in 1..n |-> <<Len(InputRecords(p)[k])>>
                                                         \o InputRecords(p)[k]]))
        m_off    == down(n_end + LABEL_ALIGN)
        t_off    == down(m_off + DWORD_SIZE * ((n + NUM_TOKENS - 1) \div NUM_TOKENS))
        t_end    == t_off + Len(BlobBytes)
        i_off    == down(t_end + LABEL_ALIGN)
    IN  [ addresses |-> a_off, addresses_end |-> a_end, num_syms |-> c_off,
          names |-> n_off, names_end |-> n_end, markers |-> m_off,
          token_table |-> t_off, tokens_end |-> t_end, token_index |-> i_off,
          length |-> i_off + WORD_SIZE * NUM_TOKENS ]

FullImage(p) ==
    LET L  == Layout(p)
        n  == Len(InputAddresses(p))
        s1 == Zeros(L.addresses)
              \o Flatten([k \in 1..n |-> PackDword(InputAddresses(p)[k])])
        s2 == s1 \o Zeros(L.num_syms - Len(s1)) \o PackDword(Dword(n + p.declaredDelta))
        s3 == s2 \o Zeros(L.names - Len(s2))
              \o Flatten([k \in 1..n |-> <<Len(InputRecords(p)[k])>> \o InputRecords(p)[k]])
        s4 == s3 \o Zeros(L.token_table - Len(s3)) \o BlobBytes
    IN  s4 \o Zeros(L.token_index - Len(s4)) \o IndexBytes

\* The length an image is cut to: inside the anchors, after the last
\* address, inside the zero word, inside the count, inside the names, inside
\* the token strings, inside the token index, one byte short.
CutLength(p) ==
    LET L == Layout(p)
    IN  CASE p.cut = 1 -> L.addresses + DWORD_SIZE + 2
          [] p.cut = 2 -> L.addresses_end
          [] p.cut = 3 -> L.addresses_end + 2
          [] p.cut = 4 -> L.num_syms + 2
          [] p.cut = 5 -> L.names + 1
          [] p.cut = 6 -> L.token_table + 100
          [] p.cut = 7 -> L.token_index + 100
          [] p.cut = 8 -> L.length - 1
          [] OTHER     -> L.length

\* The image of p: blank (zero bytes only), or the tables, cut or whole.
Image(p) ==
    IF p.blank THEN Zeros(Layout(p).length)
    ELSE SubSeq(FullImage(p), 1, CutLength(p))

-----------------------------------------------------------------------------
(* The run.                                                                *)

Init ==
    \E p \in Inputs :
        /\ input = p
        /\ argc = p.argc
        /\ argv2 = ALT_KERNEL_TEXT_START
        /\ kernel_data = Image(p)
        /\ kernel_text_start = Dword(0)
        /\ pc = "main"
        /\ ran = {}
        /\ kallsyms_addresses_off = 0
        /\ kallsyms_addresses_end_off = 0
        /\ num_symbols = 0
        /\ kallsyms_num_syms_off = 0
        /\ kallsyms_num_syms = Dword(0)
        /\ kallsyms_names_off = 0
        /\ names_end = 0
        /\ kallsyms_markers_off = 0
        /\ kallsyms_token_table_off = 0
        /\ tokens_end = 0
        /\ kallsyms_token_index_off = 0
        /\ token_table = <<>>
        /\ offset = 0
        /\ cursors = <<>>
        /\ i = 0
        /\ symbol_table = <<>>
        /\ returned = "unset"
        /\ printed = 0
        /\ stdout = <<>>
        /\ exc = "none"
        /\ exit_status = 0

\* An uncaught exception ends the process with status 1.
Raise(name) ==
    /\ exc' = name
    /\ exit_status' = 1
    /\ pc' = "exit"

\* Lines 123-125: no file argument, the usage line and a plain return.
MainUsage ==
    /\ pc = "main"
    /\ argc < 2
    /\ stdout' = Append(stdout, [tag |-> "usage", text |-> <<>>])
    /\ pc' = "exit"
    /\ ran' = ran \cup {"usage"}
    /\ UNCHANGED <<input, argc, argv2, kernel_data, kernel_text_start,
                   kallsyms_addresses_off, kallsyms_addresses_end_off, num_symbols,
                   kallsyms_num_syms_off, kallsyms_num_syms, kallsyms_names_off,
                   names_end, kallsyms_markers_off, kallsyms_token_table_off,
                   tokens_end, kallsyms_token_index_off, token_table, offset, cursors, i,
                   symbol_table, returned, printed, exc, exit_status>>

\* Lines 126-127: the file is read, the text start is the argument or the
\* default.
MainLoad ==
    /\ pc = "main"
    /\ argc >= 2
    /\ kernel_text_start' = IF argc = 3 THEN argv2 ELSE DEFAULT_KERNEL_TEXT_START
    /\ pc' = "find"
    /\ ran' = ran \cup {"load"}
    /\ UNCHANGED <<input, argc, argv2, kernel_data,
                   kallsyms_addresses_off, kallsyms_addresses_end_off, num_symbols,
                   kallsyms_num_syms_off, kallsyms_num_syms, kallsyms_names_off,
                   names_end, kallsyms_markers_off, kallsyms_token_table_off,
                   tokens_end, kallsyms_token_index_off, token_table, offset, cursors, i,
                   symbol_table, returned, printed, stdout, exc, exit_status>>

\* Lines 71-73: the table's start, its end and its size.  Python 2's / on
\* integers is the floor division.
FindAddresses ==
    /\ pc = "find"
    /\ LET off == find_kallsyms_addresses(kernel_data, kernel_text_start)
           end == Find(kernel_data, PackDword(Dword(0)), off)
       IN  /\ kallsyms_addresses_off' = off
           /\ kallsyms_addresses_end_off' = end
           /\ num_symbols' = (end - off) \div DWORD_SIZE
    /\ pc' = "check"
    /\ ran' = ran \cup {"find"}
    /\ UNCHANGED <<input, argc, argv2, kernel_data, kernel_text_start,
                   kallsyms_num_syms_off, kallsyms_num_syms, kallsyms_names_off,
                   names_end, kallsyms_markers_off, kallsyms_token_table_off,
                   tokens_end, kallsyms_token_index_off, token_table, offset, cursors, i,
                   symbol_table, returned, printed, stdout, exc, exit_status>>

\* Lines 76-80: the count stored after the table is compared with the
\* table's size; on a mismatch a message is printed (to standard output, as
\* print does) and None is returned to main.
CheckNumSyms ==
    /\ pc = "check"
    /\ ran' = ran \cup {"check"}
    /\ LET off == label_align(kallsyms_addresses_end_off + LABEL_ALIGN)
       IN  /\ kallsyms_num_syms_off' = off
           /\ IF ~CanReadDword(kernel_data, off)
              THEN /\ Raise("struct.error")
                   /\ UNCHANGED <<kallsyms_num_syms, stdout, returned>>
              ELSE /\ kallsyms_num_syms' = read_dword(kernel_data, off)
                   /\ UNCHANGED <<exc, exit_status>>
                   /\ IF ~DwordEquals(read_dword(kernel_data, off), num_symbols)
                      THEN /\ stdout' = Append(stdout,
                                   [tag |-> "mismatch",
                                    text |-> <<num_symbols, read_dword(kernel_data, off)>>])
                           /\ returned' = "None"
                           /\ pc' = "print"
                      ELSE /\ pc' = "names"
                           /\ UNCHANGED <<stdout, returned>>
    /\ UNCHANGED <<input, argc, argv2, kernel_data, kernel_text_start,
                   kallsyms_addresses_off, kallsyms_addresses_end_off, num_symbols,
                   kallsyms_names_off, names_end, kallsyms_markers_off,
                   kallsyms_token_table_off, tokens_end, kallsyms_token_index_off,
                   token_table, offset, cursors, i, symbol_table, printed>>

\* The loop of lines 85-86, k iterations from cur: where it ends, or where a
\* length byte could not be read.  (A long loop is evaluated sixteen
\* iterations at a time, which keeps the evaluation shallow and changes
\* nothing else.)
RECURSIVE WalkNamesLoop(_, _, _)
WalkNamesLoop(data, cur, k) ==
    IF k <= 0 THEN [ok |-> TRUE, off |-> cur]
    ELSE IF k > 16
    THEN LET first == WalkNamesLoop(data, cur, 16)
         IN  IF first.ok THEN WalkNamesLoop(data, first.off, k - 16) ELSE first
    ELSE IF ~CanReadByte(data, cur) THEN [ok |-> FALSE, off |-> cur]
    ELSE WalkNamesLoop(data, cur + read_byte(data, cur) + 1, k - 1)

\* Lines 83-87: the names are skipped record by record to find the markers.
WalkNames ==
    /\ pc = "names"
    /\ ran' = ran \cup {"names"}
    /\ LET start == label_align(kallsyms_num_syms_off + LABEL_ALIGN)
           walk  == WalkNamesLoop(kernel_data, start, num_symbols)
       IN  /\ kallsyms_names_off' = start
           /\ names_end' = walk.off
           /\ IF walk.ok
              THEN /\ kallsyms_markers_off' = label_align(walk.off + LABEL_ALIGN)
                   /\ pc' = "tokens"
                   /\ UNCHANGED <<exc, exit_status>>
              ELSE /\ Raise("struct.error")
                   /\ UNCHANGED kallsyms_markers_off
    /\ UNCHANGED <<input, argc, argv2, kernel_data, kernel_text_start,
                   kallsyms_addresses_off, kallsyms_addresses_end_off, num_symbols,
                   kallsyms_num_syms_off, kallsyms_num_syms,
                   kallsyms_token_table_off, tokens_end, kallsyms_token_index_off,
                   token_table, offset, cursors, i, symbol_table, returned, printed, stdout>>

\* x >> n
ShiftRight(x, n) == x \div (2 ^ n)

\* The loop of lines 92-94, k strings from cur: where it ends, or where a
\* string could not be read (evaluated sixteen iterations at a time).
RECURSIVE WalkTokensLoop(_, _, _)
WalkTokensLoop(data, cur, k) ==
    IF k <= 0 THEN [ok |-> TRUE, off |-> cur]
    ELSE IF k > 16
    THEN LET first == WalkTokensLoop(data, cur, 16)
         IN  IF first.ok THEN WalkTokensLoop(data, first.off, k - 16) ELSE first
    ELSE IF ~CanReadCString(data, cur) THEN [ok |-> FALSE, off |-> cur]
    ELSE WalkTokensLoop(data, cur + Len(read_c_string(data, cur)) + 1, k - 1)

\* Line 90.
TokenTableOffset(markers_off, count) ==
    label_align(markers_off + (ShiftRight(count + 255, 8) * DWORD_SIZE))

\* Lines 90-95: the markers are skipped, then the 256 token strings, to find
\* the token index.
WalkTokens ==
    /\ pc = "tokens"
    /\ ran' = ran \cup {"tokens"}
    /\ LET start == TokenTableOffset(kallsyms_markers_off, num_symbols)
           walk  == WalkTokensLoop(kernel_data, start, NUM_TOKENS)
       IN  /\ kallsyms_token_table_off' = start
           /\ tokens_end' = walk.off
           /\ IF walk.ok
              THEN /\ kallsyms_token_index_off' = label_align(walk.off + LABEL_ALIGN)
                   /\ pc' = "table"
                   /\ UNCHANGED <<exc, exit_status>>
              ELSE /\ Raise("IndexError")
                   /\ UNCHANGED kallsyms_token_index_off
    /\ UNCHANGED <<input, argc, argv2, kernel_data, kernel_text_start,
                   kallsyms_addresses_off, kallsyms_addresses_end_off, num_symbols,
                   kallsyms_num_syms_off, kallsyms_num_syms, kallsyms_names_off,
                   names_end, kallsyms_markers_off,
                   token_table, offset, cursors, i, symbol_table, returned, printed, stdout>>

\* Line 100 for token t.
TokenIndexEntry(t) == kallsyms_token_index_off + t * WORD_SIZE

\* Line 101 for token t.
TokenStringOffset(t) ==
    kallsyms_token_table_off + read_word(kernel_data, TokenIndexEntry(t))

\* Lines 98-101, and line 104-105: the token table is built from the index;
\* the first entry that cannot be read raises.
BuildTokenTable ==
    /\ pc = "table"
    /\ ran' = ran \cup {"table"}
    /\ LET bad == { t \in 0..(NUM_TOKENS - 1) :
                      \/ ~CanReadWord(kernel_data, TokenIndexEntry(t))
                      \/ ~CanReadCString(kernel_data, TokenStringOffset(t)) }
       IN  IF bad = {}
           THEN /\ token_table' = [k \in 1..NUM_TOKENS |->
                                     read_c_string(kernel_data, TokenStringOffset(k - 1))]
                /\ offset' = kallsyms_names_off
                /\ symbol_table' = <<>>
                /\ i' = 0
                /\ pc' = "decode"
                /\ UNCHANGED <<exc, exit_status>>
           ELSE /\ LET t == CHOOSE t \in bad : \A u \in bad : t <= u
                   IN  IF ~CanReadWord(kernel_data, TokenIndexEntry(t))
                       THEN Raise("struct.error")
                       ELSE Raise("IndexError")
                /\ UNCHANGED <<token_table, offset, symbol_table, i>>
    /\ UNCHANGED cursors
    /\ UNCHANGED <<input, argc, argv2, kernel_data, kernel_text_start,
                   kallsyms_addresses_off, kallsyms_addresses_end_off, num_symbols,
                   kallsyms_num_syms_off, kallsyms_num_syms, kallsyms_names_off,
                   names_end, kallsyms_markers_off, kallsyms_token_table_off,
                   tokens_end, kallsyms_token_index_off, returned, printed, stdout>>

\* A faulty loop, which puts each token before the name built so far: the
\* properties must tell it from the real one.
RECURSIVE DecodeLoop_prepend(_, _, _, _, _)
DecodeLoop_prepend(data, table, cur, j, name) ==
    IF j <= 0 THEN [ok |-> TRUE, off |-> cur, name |-> name]
    ELSE IF ~CanReadByte(data, cur) THEN [ok |-> FALSE, off |-> cur, name |-> name]
    ELSE DecodeLoop_prepend(data, table, cur + 1, j - 1,
                            table[read_byte(data, cur) + 1] \o name)

\* The loop of lines 110-113: j counts down from num_tokens, each pass reads
\* the byte at cur, appends its token to name and moves cur on.
RECURSIVE DecodeLoop(_, _, _, _, _)
DecodeLoop(data, table, cur, j, name) ==
    IF j <= 0 THEN [ok |-> TRUE, off |-> cur, name |-> name]
    ELSE IF j > 16
    THEN LET first == DecodeLoop(data, table, cur, 16, name)
         IN  IF first.ok THEN DecodeLoop(data, table, first.off, j - 16, first.name)
             ELSE first
    ELSE IF ~CanReadByte(data, cur) THEN [ok |-> FALSE, off |-> cur, name |-> name]
    ELSE DecodeLoop(data, table, cur + 1, j - 1,
                    name \o table[read_byte(data, cur) + 1])

\* Lines 107-113 for the record at cur.
DecodeRecord(data, table, cur) ==
    IF ~CanReadByte(data, cur) THEN [ok |-> FALSE, off |-> cur, name |-> <<>>]
    ELSE DecodeLoop(data, table, cur + 1, read_byte(data, cur), <<>>)

\* Line 116: the record appended for a decoded name.
SymbolRecord(address, symbol_name) ==
    <<address, Head(symbol_name), Tail(symbol_name)>>

\* Lines 106-116, one pass of the loop: symbol i is decompressed, paired with
\* its address and appended.  symbol_name[0] raises IndexError on an empty
\* name.
DecodeSymbol ==
    /\ pc = "decode"
    /\ i < num_symbols
    /\ ran' = ran \cup {"decode"}
    /\ LET rec  == DecodeRecord(kernel_data, token_table, offset)
           aoff == kallsyms_addresses_off + i * DWORD_SIZE
       IN  /\ offset' = rec.off
           /\ cursors' = Append(cursors, offset)
           /\ IF ~rec.ok \/ ~CanReadDword(kernel_data, aoff)
              THEN /\ Raise("struct.error")
                   /\ UNCHANGED <<symbol_table, i>>
              ELSE IF rec.name = <<>>
              THEN /\ Raise("IndexError")
                   /\ UNCHANGED <<symbol_table, i>>
              ELSE /\ symbol_table' = Append(symbol_table,
                          SymbolRecord(read_dword(kernel_data, aoff), rec.name))
                   /\ i' = i + 1
                   /\ UNCHANGED <<pc, exc, exit_status>>
    /\ UNCHANGED <<input, argc, argv2, kernel_data, kernel_text_start,
                   kallsyms_addresses_off, kallsyms_addresses_end_off, num_symbols,
                   kallsyms_num_syms_off, kallsyms_num_syms, kallsyms_names_off,
                   names_end, kallsyms_markers_off, kallsyms_token_table_off,
                   tokens_end, kallsyms_token_index_off, token_table,
                   returned, printed, stdout>>

\* Line 118: the table is returned to main once every symbol is decoded.
ReturnTable ==
    /\ pc = "decode"
    /\ i >= num_symbols
    /\ returned' = "list"
    /\ pc' = "print"
    /\ ran' = ran \cup {"return"}
    /\ UNCHANGED <<input, argc, argv2, kernel_data, kernel_text_start,
                   kallsyms_addresses_off, kallsyms_addresses_end_off, num_symbols,
                   kallsyms_num_syms_off, kallsyms_num_syms, kallsyms_names_off,
                   names_end, kallsyms_markers_off, kallsyms_token_table_off,
                   tokens_end, kallsyms_token_index_off, token_table, offset, cursors, i,
                   symbol_table, printed, stdout, exc, exit_status>>

\* Line 131 when get_kernel_symbol_table returned None: iterating None
\* raises TypeError.
MainIterateNone ==
    /\ pc = "print"
    /\ returned = "None"
    /\ Raise("TypeError")
    /\ ran' = ran \cup {"main_loop"}
    /\ UNCHANGED <<input, argc, argv2, kernel_data, kernel_text_start,
                   kallsyms_addresses_off, kallsyms_addresses_end_off, num_symbols,
                   kallsyms_num_syms_off, kallsyms_num_syms, kallsyms_names_off,
                   names_end, kallsyms_markers_off, kallsyms_token_table_off,
                   tokens_end, kallsyms_token_index_off, token_table, offset, cursors, i,
                   symbol_table, returned, printed, stdout>>

\* "%X" of a digit.
HexDigit(d) == IF d < 10 THEN 48 + d ELSE 55 + d

\* "%08X" of a 32-bit value.
Hex8(value) ==
    [k \in 1..8 |-> HexDigit((value[(k + 3) \div 4] \div (16 ^ ((8 - k) % 4))) % 16)]

\* "%08X %s %s" % symbol
FormatSymbol(symbol) == Hex8(symbol[1]) \o <<32, symbol[2], 32>> \o symbol[3]

\* Lines 131-132, one pass of the loop: the next symbol is printed.
MainPrintSymbol ==
    /\ pc = "print"
    /\ returned = "list"
    /\ printed < Len(symbol_table)
    /\ stdout' = Append(stdout, [tag |-> "symbol",
                                 text |-> FormatSymbol(symbol_table[printed + 1])])
    /\ printed' = printed + 1
    /\ ran' = ran \cup {"main_loop"}
    /\ UNCHANGED <<input, argc, argv2, kernel_data, kernel_text_start, pc,
                   kallsyms_addresses_off, kallsyms_addresses_end_off, num_symbols,
                   kallsyms_num_syms_off, kallsyms_num_syms, kallsyms_names_off,
                   names_end, kallsyms_markers_off, kallsyms_token_table_off,
                   tokens_end, kallsyms_token_index_off, token_table, offset, cursors, i,
                   symbol_table, returned, exc, exit_status>>

\* The loop of line 131 is over: main returns and the process ends with
\* status 0.
MainReturn ==
    /\ pc = "print"
    /\ returned = "list"
    /\ printed >= Len(symbol_table)
    /\ pc' = "exit"
    /\ ran' = ran \cup {"main_loop"}
    /\ UNCHANGED <<input, argc, argv2, kernel_data, kernel_text_start,
                   kallsyms_addresses_off, kallsyms_addresses_end_off, num_symbols,
                   kallsyms_num_syms_off, kallsyms_num_syms, kallsyms_names_off,
                   names_end, kallsyms_markers_off, kallsyms_token_table_off,
                   tokens_end, kallsyms_token_index_off, token_table, offset, cursors, i,
                   symbol_table, returned, printed, stdout, exc, exit_status>>

Next ==
    \/ MainUsage
    \/ MainLoad
    \/ FindAddresses
    \/ CheckNumSyms
    \/ WalkNames
    \/ WalkTokens
    \/ BuildTokenTable
    \/ DecodeSymbol
    \/ ReturnTable
    \/ MainIterateNone
    \/ MainPrintSymbol
    \/ MainReturn

Spec == Init /\ [][Next]_vars

-----------------------------------------------------------------------------
(* The properties.  A run is described by the image it was given (input),  *)
(* the stages that ran (ran) and how the process ended (exc, exit_status,  *)
(* stdout).                                                                *)

\* The stages of get_kernel_symbol_table after the table was looked for.
LaterStages == {"check", "names", "tokens", "table", "decode", "return"}

\* The locator did not find the anchor twice in a row.
NotFound == "find" \in ran /\ kallsyms_addresses_off = -1

\* The stored count was read and differs from the table's size.
CountMismatch ==
    /\ "check" \in ran
    /\ CanReadDword(kernel_data, kallsyms_num_syms_off)
    /\ ~DwordEquals(kallsyms_num_syms, num_symbols)

\* The image holds a whole, well-formed table whose anchor is the text start
\* the run looks for.
WellFormedInput ==
    /\ input.argc >= 2
    /\ ~input.blank
    /\ input.cut = 0
    /\ input.anchors >= KALLSYMS_ADDRESSES_MIN_HEURISTIC
    /\ input.declaredDelta = 0
    /\ input.lastRecord = GoodRecord
    /\ input.base = (IF input.argc = 3 THEN ALT_KERNEL_TEXT_START
                     ELSE DEFAULT_KERNEL_TEXT_START)

\* C1: for a well-formed table the run returns exactly num_symbols records,
\* record k carrying the 32-bit word at addresses_offset + 4 * k, in the
\* order of the address table.
C1_WellFormedTableYieldsAllAddresses ==
    (pc = "exit" /\ WellFormedInput) =>
        LET L == Layout(input)
            n == Len(InputAddresses(input))
        IN  /\ returned = "list"
            /\ Len(symbol_table) = n
            /\ \A k \in 1..n :
                  symbol_table[k][1]
                      = read_dword(kernel_data, L.addresses + DWORD_SIZE * (k - 1))

\* C2: a stored count that differs from the measured one ends the run in a
\* failure of its own (not the crash of another statement), with nothing on
\* standard output, and neither the name walk nor the decompressor runs.
C2_CountMismatchIsDistinctFailure ==
    CountMismatch =>
        /\ ran \cap {"names", "tokens", "table", "decode", "return"} = {}
        /\ stdout = <<>>
        /\ pc = "exit" => (exit_status # 0 /\ exc # "TypeError")

\* C3: when the anchor pattern does not occur, the run fails there: no later
\* stage runs on the locator's result and no symbol sequence, not even an
\* empty one, is returned.
C3_NotFoundIsTerminal ==
    NotFound =>
        /\ ran \cap LaterStages = {}
        /\ returned # "list"
        /\ pc = "exit" => exit_status # 0

\* C4: every record holds the tokens of its index bytes joined in the order
\* the bytes appear in the names (kind the first character, name the rest),
\* and the cursor moves L + 1 bytes over a record of length byte L.
C4_TokensJoinedInEncounterOrder ==
    /\ cursors # <<>> => cursors[1] = kallsyms_names_off
    /\ \A k \in 1..Len(symbol_table) :
          LET start   == cursors[k]
              L       == kernel_data[start + 1]
              after   == IF k < Len(cursors) THEN cursors[k + 1] ELSE offset
              decoded == Flatten([m \in 1..L |->
                                    token_table[kernel_data[start + 1 + m] + 1]])
          IN  /\ decoded # <<>>
              /\ symbol_table[k][2] = decoded[1]
              /\ symbol_table[k][3] = SubSeq(decoded, 2, Len(decoded))
              /\ after = start + L + 1

\* A run that decoded "tfoo_" and then the record [0, 5, 12] into kind "T"
\* and name "_foo".
C4_Witness ==
    /\ pc = "exit"
    /\ exc = "none"
    /\ Len(symbol_table) >= 2
    /\ \E k \in 1..Len(symbol_table) :
          /\ SubSeq(kernel_data, cursors[k] + 1, cursors[k] + 4) = <<3, 0, 5, 12>>
          /\ symbol_table[k][2] = 84
          /\ symbol_table[k][3] = <<95, 102, 111, 111>>

\* C5: an image that ends before its tables do fails as a malformed image:
\* the run ends in the exception of a read past the end, the count was read
\* where the layout puts it, and no symbol sequence is returned.
C5_TruncatedImageIsMalformed ==
    (input.argc >= 2 /\ input.cut # 0) =>
        /\ returned # "list"
        /\ "check" \in ran => kallsyms_num_syms_off = Layout(input).num_syms
        /\ pc = "exit" => exc \in {"struct.error", "IndexError"}

\* A stage of the run failed.
StageFailed == exc # "none" \/ returned = "None" \/ NotFound

\* C6: nothing is written to standard output before every symbol is decoded;
\* a run in which a stage failed writes nothing and ends with a non-zero
\* status, any other run writes exactly num_symbols lines.
C6_AllOrNothingOutput ==
    input.argc >= 2 =>
        /\ stdout # <<>> => (returned = "list" /\ Len(symbol_table) = num_symbols)
        /\ (pc = "exit" /\ StageFailed) => (stdout = <<>> /\ exit_status # 0)
        /\ (pc = "exit" /\ ~StageFailed) => Len(stdout) = num_symbols

\* C7: a symbol whose decoded string is empty once its kind character is
\* taken off is never put in the table, and the run that meets one fails
\* without output.
C7_EmptyNameIsMalformedSymbol ==
    /\ \A k \in 1..Len(symbol_table) : symbol_table[k][3] # <<>>
    /\ (pc = "exit" /\ "decode" \in ran /\ input.lastRecord # GoodRecord) =>
          (exc # "none" /\ stdout = <<>>)

\* The first zero word met from off in steps of four bytes, or -1.
FirstZeroWordInSteps(data, off) ==
    LET steps == { k \in 0..(Len(data) \div DWORD_SIZE) :
                     /\ CanReadDword(data, off + DWORD_SIZE * k)
                     /\ read_dword(data, off + DWORD_SIZE * k) = Dword(0) }
    IN  IF steps = {} THEN -1
        ELSE off + DWORD_SIZE * (CHOOSE k \in steps : \A j \in steps : k <= j)

\* C8: whenever the extraction goes on past the count check, the table's end
\* is the first zero word met in steps of four bytes from its start, so the
\* table's size is a multiple of four.
C8_TableEndFoundInWordSteps ==
    (ran \cap {"names", "tokens", "table", "decode", "return"} # {} /\ ~NotFound) =>
        /\ (kallsyms_addresses_end_off - kallsyms_addresses_off) % DWORD_SIZE = 0
        /\ kallsyms_addresses_end_off
              = FirstZeroWordInSteps(kernel_data, kallsyms_addresses_off)

\* x rounded down to the alignment quantum.
AlignDown(x) == x - (x % 16)

\* The number of markers of count symbols: count / 256 rounded up.
MarkerCount(count) ==
    IF count % NUM_TOKENS = 0 THEN count \div NUM_TOKENS
    ELSE (count \div NUM_TOKENS) + 1

\* The markers offset, the token index offset have been computed.
MarkersKnown == pc = "tokens" \/ "tokens" \in ran

TokenIndexKnown == pc = "table" \/ "table" \in ran

\* C9: every derived offset a run reaches is a multiple of 16 and is the
\* rounded-down value the layout gives for it.
C9_DerivedOffsetsAligned ==
    /\ "check" \in ran =>
          /\ kallsyms_num_syms_off = AlignDown(kallsyms_addresses_end_off + 16)
          /\ kallsyms_num_syms_off % 16 = 0
    /\ "names" \in ran =>
          /\ kallsyms_names_off = AlignDown(kallsyms_num_syms_off + 4 + 16)
          /\ kallsyms_names_off % 16 = 0
    /\ MarkersKnown =>
          /\ kallsyms_markers_off = AlignDown(names_end + 16)
          /\ kallsyms_markers_off % 16 = 0
    /\ "tokens" \in ran =>
          /\ kallsyms_token_table_off
                = AlignDown(kallsyms_markers_off + MarkerCount(num_symbols) * 4)
          /\ kallsyms_token_table_off % 16 = 0
    /\ TokenIndexKnown =>
          /\ kallsyms_token_index_off = AlignDown(tokens_end + 16)
          /\ kallsyms_token_index_off % 16 = 0

\* A run over a table of more than 256 symbols in which all five offsets are
\* computed and none of the rounded values was a multiple of 16 already.
C9_Witness ==
    /\ pc = "decode"
    /\ num_symbols > NUM_TOKENS
    /\ kallsyms_addresses_end_off % 16 # 0
    /\ names_end % 16 # 0
    /\ (kallsyms_markers_off + MarkerCount(num_symbols) * 4) % 16 # 0
    /\ tokens_end % 16 # 0

\* C10: the derived tables do not overlap: the token strings start at or
\* after the end of the markers, the markers after the last names record,
\* the token index after the last token string.
C10_DerivedTablesDoNotOverlap ==
    /\ MarkersKnown => kallsyms_markers_off >= names_end
    /\ "tokens" \in ran =>
          kallsyms_token_table_off
              >= kallsyms_markers_off + MarkerCount(num_symbols) * 4
    /\ TokenIndexKnown => kallsyms_token_index_off >= tokens_end

=============================================================================
